---- MODULE Spec2Model ----
(***************************************************************************)
(* A model of the core of sim2net: the simulation clock (sim2net/_time.py),*)
(* the bidirectional channels (sim2net/_channel.py) and the per-step       *)
(* network orchestrator (sim2net/_network.py), driven as by Sim2Net.run()  *)
(* (sim2net/simulator.py) with the crash model (sim2net/failure/crash.py)  *)
(* and the path-loss propagation model (sim2net/propagation/path_loss.py). *)
(*                                                                         *)
(* Simulation time is a float in the source.  Here it is a fixed-point     *)
(* number counted in 1/Resolution-ths of a time unit, where Resolution is  *)
(* the least number that every frequency of Frequencies divides, so that   *)
(* step / frequency is exact, as it is for the floats of the source when   *)
(* the frequency is a power of two.                                        *)
(*                                                                         *)
(* The mobility model, the draws of the transmission time, of the losses   *)
(* and of the crashes, and the calls the application makes within main are *)
(* nondeterministic choices.  Spec is a run of Sim2Net.run() with any      *)
(* application; SpecHelloWorld is the run of the templates of sim2net/cli, *)
(* SpecMutation a run whose applications change the objects they sent and  *)
(* the lists they were handed, SpecReceivers a run whose applications      *)
(* change the objects they received, SpecCrash a run under any arguments   *)
(* of the crash model, SpecConstruction the construction of the network    *)
(* alone, SpecChannel the construction of one channel alone, SpecClock the *)
(* clock alone, and SpecGilbertElliott the Gilbert-Elliott packet loss     *)
(* model (sim2net/packet_loss/gilbert_elliott.py) alone.                   *)
(***************************************************************************)
EXTENDS Integers, Sequences, FiniteSets, TLC

\* ------------------------------------------------------------------ bounds
\* The configuration of the runs: the number of nodes, the steps of a run,
\* the maximum transmission time (in fixed-point units: one and a half
\* periods of the clock) and the maximum number of crashes.
NodesNumber == 3
TotalSimulationSteps == 3
MaximumTransmissionTime == 3
MaximumCrashNumber == 1
\* The area: the positions are 0 .. MaxCoordinate, two apart.
MaxCoordinate == 1
\* The applications: the non-empty messages sent in a run, the greatest
\* identifier of a node that sends, and the calls of send and receive that
\* one call of main makes.
MaxSends == 2
MaxSender == 0
MaxCalls == 2
\* The calls of tick() on a clock taken alone.
MaxTicks == 30
\* The steps of a run of the Hello World.
HelloWorldSteps == 4

Frequencies == {1, 2, 4, 8}
Messages == {"", "a"}

\* The positions of the area: points of a line, two apart.
Coordinates == {2 * c : c \in 0 .. MaxCoordinate}

\* The least common multiple of Frequencies: the number of fixed-point units
\* in one unit of simulation time.
Resolution ==
    CHOOSE r \in 1 .. 64 :
        /\ \A f \in Frequencies : r % f = 0
        /\ \A q \in 1 .. (r - 1) : \E f \in Frequencies : q % f # 0

\* Python's None, and a present value, for the fields that hold either.
None == << >>
Some(x) == << x >>

VARIABLES
    \* the configuration and the environment handed to Network.__init__
    nodes_number, total_simulation_steps, maximum_transmission_time,
    application, loss_never, environment,
    \* the arguments of a Channel constructed on its own
    channel_arguments,
    \* the arguments of sim2net.failure.crash.Crash
    crash_probability, maximum_crash_number, transient_steps,
    \* sim2net.packet_loss.gilbert_elliott.GilbertElliott called on its own:
    \* its parameters, its current state and its number of calls
    prhk, current_state, loss_calls,
    \* sim2net._time.Time
    simulation_frequency, simulation_step, simulation_time,
    \* sim2net._network.Network
    phase, node, in_main, coordinates, neighbors, failure, current_time,
    \* sim2net.failure.crash.Crash and the packet loss collaborator
    crashed, loss_always,
    \* sim2net._channel.Channel, one per node
    packet_counter, next_transmission_time, transmitted_packets,
    captured_packets,
    \* the application: its position within main, and the message objects
    main_pc, heap,
    \* observations of the run (not state of the program)
    ticks, tick_result, in_range, moved, main_calls, calls, sends, last_end,
    phase_log, deliver_loop, callbacks, sent_payload, together, event,
    \* the calls of Network.step() begun so far, and the packet counters at
    \* the beginning of the last of them (an observation too)
    step_begin

crash_vars == << crash_probability, maximum_crash_number, transient_steps >>
gilbert_elliott_vars == << prhk, current_state, loss_calls >>
configuration_vars == << nodes_number, total_simulation_steps,
                         maximum_transmission_time, application, loss_never,
                         environment, channel_arguments, crash_vars,
                         gilbert_elliott_vars >>
clock_vars == << simulation_frequency, simulation_step, simulation_time,
                 ticks, tick_result >>
channel_vars == << packet_counter, next_transmission_time,
                   transmitted_packets, captured_packets >>
network_vars == << phase, node, in_main, coordinates, neighbors, failure,
                   crashed, loss_always, in_range, moved, main_calls, calls,
                   sends, phase_log, deliver_loop >>
object_vars == << heap, sent_payload >>
vars == << configuration_vars, clock_vars, network_vars, channel_vars,
           object_vars, current_time, main_pc, callbacks, together, last_end,
           event, step_begin >>

\* The identifiers of the nodes: range(0, nodes_number).
Nodes == 0 .. (nodes_number - 1)

\* The applications of the runs: main sends on the nodes of SendingNodes and
\* receives on every node.
SendingNodes == {n \in Nodes : n <= MaxSender}

\* ------------------------------------------------------------------ clock
SIMULATION_TICK == 1

\* The simulation frequency of the configuration.
SimulationFrequency == 4

\* The number of nodes of the configuration, and its maximum transmission
\* time, 0.125, in fixed-point units.
HelloWorldNodes == 2
HelloWorldTransmissionTime == Resolution \div 8

\* Time.simulation_period, set by Time.setup as 1.0 / frequency.
SimulationPeriod == Resolution \div simulation_frequency

\* The float -1.0 of Time.setup and of _Output.__init__.
MinusOne == 0 - Resolution

TickStepTwice(step) == step + SIMULATION_TICK + SIMULATION_TICK

\* Time.tick: the step advances by one and the time is step / frequency.
TickStep(step) == step + SIMULATION_TICK

\* The time of a tick that divides two integers (the division of Python 2
\* when the frequency is not made a float).
TickTimeIntegerDivision(step) == (step \div simulation_frequency) * Resolution

TickTime(step) == (step * Resolution) \div simulation_frequency

\* Time.setup: the frequencies it refuses.
InvalidWhenNegative(frequency) == frequency < 0

Invalid(frequency) == frequency <= 0

\* Time.setup(frequency): the step and the time are set to -1 and -1.0, then
\* the frequency is checked, and kept when it is valid.
Setup(frequency) ==
    /\ simulation_step' = -1
    /\ simulation_time' = MinusOne
    /\ IF Invalid(frequency)
       THEN /\ phase' = "error"
            /\ event' = [op |-> "setup", frequency |-> frequency,
                         raised |-> "ValueError"]
            /\ UNCHANGED simulation_frequency
       ELSE /\ phase' = "clock"
            /\ event' = [op |-> "setup", frequency |-> frequency,
                         raised |-> "nothing"]
            /\ simulation_frequency' = frequency

Tick ==
    /\ simulation_step' = TickStep(simulation_step)
    /\ simulation_time' = TickTime(simulation_step')
    /\ ticks' = ticks + 1
    /\ tick_result' = << simulation_step', simulation_time' >>
    /\ UNCHANGED simulation_frequency

\* ---------------------------------------------------------------- channel
GetTransmissionNeighborsNever(transmission_time, nbrs) == None

\* _Output.__get_transmission_neighbors: the neighbors of the sending step when
\* the transmission starts within the next period, None otherwise.
GetTransmissionNeighbors(transmission_time, nbrs) ==
    IF transmission_time <= simulation_time + SimulationPeriod
    THEN Some(nbrs)
    ELSE None

\* _Output.send_message, "if not message": the falsy messages are discarded.
DiscardedNever(message) == FALSE

Discarded(message) == message = ""

TransmissionTimesFromZero == 0 .. maximum_transmission_time

\* _Output.send_message: the values message_transmission_time can leave the
\* re-drawing loop with, uniform in (0, maximum_transmission_time].
TransmissionTimes == 1 .. maximum_transmission_time

\* _Output.send_message: next_transmission_time is raised to the clock's time
\* when it is behind it; the result is the start of the new packet.
TransmissionStartNow(next_time, now) == now

TransmissionStart(next_time, now) ==
    IF next_time < now THEN now ELSE next_time

\* _Output.send_message, "self.__packet_counter += 1": the identifier of the
\* packet created after the one the counter stands at.
NextPacketIdSame(counter) == counter

NextPacketId(counter) == counter + 1

\* The message objects.  An object is named by the node whose application
\* made it, the identifier of the packet it was sent for, and whether it is
\* the object the application passed to send ("original") or the one
\* copy.deepcopy made of it ("copy"); heap gives the content of each.
Original(n, id) == << n, id, "original" >>

\* Network.communication_send, deepcopy(message): a new object with the
\* content of the given one.
SameObject(object) == object

DeepCopy(object) == << object[1], object[2], "copy" >>

\* The content an application changes its object to after the send.
MutatedMessage == "b"

\* The packet send_message appends: [start, end, id, (sender, message),
\* neighbors].  __get_transmission_neighbors returns the list it was given,
\* not a copy: shares_list tells that the packet's list is the very object
\* Network.__nodes['neighbors'][sender], which main is handed too; the
\* packet has a list of its own from the first "list(set(...) & ...)" on,
\* and __neighborhood gives the network new lists.  The g_* fields are observations kept with the packet: the
\* intersection of the sender's neighbor lists at the steps within the window
\* (g_window), the nodes absent from its list at a step from the send on and
\* before the end of the window (g_left), and the nodes absent from it at a
\* step within the window and before its end (g_left_in_window).
NewPacket(n, message, nbrs, start, duration) ==
    [start |-> start,
     end |-> start + duration,
     id |-> NextPacketId(packet_counter[n]),
     sender |-> n,
     message |-> message,
     neighbors |-> GetTransmissionNeighbors(start, nbrs),
     shares_list |-> GetTransmissionNeighbors(start, nbrs) # None,
     g_window |-> IF start <= simulation_time THEN nbrs ELSE Nodes,
     g_left |-> Nodes \ nbrs,
     g_left_in_window |->
         IF start <= simulation_time THEN Nodes \ nbrs ELSE {}]

\* _Output.send_message(message, neighbors) of node n, with the drawn
\* transmission time; message is the object and content what it holds.
SendMessage(n, message, content, nbrs, duration) ==
    IF Discarded(content)
    THEN UNCHANGED << channel_vars, last_end >>
    ELSE LET start == TransmissionStart(next_transmission_time[n],
                                        simulation_time)
         IN /\ packet_counter' =
                   [packet_counter EXCEPT ![n] = NextPacketId(@)]
            /\ transmitted_packets' =
                   [transmitted_packets EXCEPT ![n] =
                       Append(@, NewPacket(n, message, nbrs, start, duration))]
            /\ next_transmission_time' =
                   [next_transmission_time EXCEPT ![n] = start + duration]
            /\ last_end' = [last_end EXCEPT ![n] = Some(start + duration)]
            /\ UNCHANGED captured_packets

\* _Output.transmit_packets, the body of its loop for one packet: resolve the
\* neighbors that are still None, then, within the window, keep only the nodes
\* that are neighbors now.
InWindow(packet) ==
    packet.start <= simulation_time /\ packet.end >= simulation_time

ResolveAgain(packet, nbrs) ==
    [packet EXCEPT
        !.neighbors = GetTransmissionNeighbors(packet.start, nbrs),
        !.shares_list = GetTransmissionNeighbors(packet.start, nbrs) # None]

Resolve(packet, nbrs) ==
    IF packet.neighbors = None
    THEN [packet EXCEPT
             !.neighbors = GetTransmissionNeighbors(packet.start, nbrs),
             !.shares_list =
                 GetTransmissionNeighbors(packet.start, nbrs) # None]
    ELSE packet

IntersectNothing(targets, nbrs) == targets

IntersectUnion(targets, nbrs) == targets \cup nbrs

Intersect(targets, nbrs) == targets \cap nbrs

TransmitPacket(packet, nbrs) ==
    LET p == Resolve(packet, nbrs)
    IN IF InWindow(p) /\ p.neighbors # None /\ p.neighbors[1] # {}
       THEN [p EXCEPT !.neighbors = Some(Intersect(p.neighbors[1], nbrs)),
                      !.shares_list = FALSE]
       ELSE p

\* _Output.transmit_packets, "assert packet[-1] is not None": the packets
\* of node n, by their place in the queue, at which the assertion fails.
AssertionFails(n, nbrs) ==
    {i \in 1 .. Len(transmitted_packets[n]) :
        LET p == Resolve(transmitted_packets[n][i], nbrs)
        IN InWindow(p) /\ p.neighbors = None}

\* _Output.transmit_packets(neighbors) of node n: the loop over the queue,
\* which the first failing assertion leaves.
TransmitPackets(n, nbrs) ==
    /\ transmitted_packets' =
           [transmitted_packets EXCEPT ![n] =
               [i \in 1 .. Len(@) |->
                   IF \A j \in AssertionFails(n, nbrs) : i < j
                   THEN TransmitPacket(@[i], nbrs)
                   ELSE IF \A j \in AssertionFails(n, nbrs) : i <= j
                        THEN Resolve(@[i], nbrs)
                        ELSE @[i]]]
    /\ UNCHANGED << packet_counter, next_transmission_time,
                    captured_packets >>

\* _Output.deliver_packet: the front packet is examined only when its
\* transmission has ended.
ReadyStrictly(packet) == packet.end < simulation_time

ReadyAtStart(packet) == packet.start <= simulation_time

Ready(packet) == packet.end <= simulation_time

\* PacketLoss.packet_loss(): the values one call can return.
PacketLossDraws ==
    IF loss_always THEN {TRUE} ELSE IF loss_never THEN {FALSE} ELSE BOOLEAN

\* _Output.deliver_packet: the lists `losses` that the draws, one per node of
\* the packet's list, can give.
DrawnNodesAll(targets) == Nodes

\* _Output.deliver_packet, "for neighbor in packet[-1]": the nodes for which
\* packet_loss() is called, one call per node of the packet's list.
DrawnNodes(targets) == targets

\* _Output.deliver_packet: the results of the calls of packet_loss(), one per
\* drawn node.
Draws(targets) == [DrawnNodes(targets) -> PacketLossDraws]

\* _Output.deliver_packet, "[neighbor ... if self.__packet_loss.packet_loss()]":
\* the list `losses` of the nodes whose call returned True.
LossesOf(draws) == {nb \in DOMAIN draws : draws[nb]}

\* _Output.deliver_packet: the receivers left after the losses.
RemainingAll(targets, losses) == targets

Remaining(targets, losses) == targets \ losses

CapturePacketInFront(receivers, packet) ==
    captured_packets' =
        [r \in Nodes |->
            IF r \in receivers
            THEN << << packet.sender, packet.message >> >> \o captured_packets[r]
            ELSE captured_packets[r]]

\* _Input.capture_packet((id, (sender, message))) on every node of receivers.
CapturePacket(receivers, packet) ==
    captured_packets' =
        [r \in Nodes |->
            IF r \in receivers
            THEN Append(captured_packets[r], << packet.sender, packet.message >>)
            ELSE captured_packets[r]]

\* _Output.deliver_packet, "if not packet[-1]: del ...; continue": the draws
\* after which no receiver is left.
AllLost(targets) ==
    {d \in Draws(targets) : Remaining(targets, LossesOf(d)) = {}}

\* _Output.deliver_packet, past "if not packet[-1]: ...; continue": the
\* packet is returned when receivers are left.
ReturnedAlways(receivers) == TRUE

Returned(receivers) == receivers # {}

\* The queue without its first k packets.
DropFront(queue, k) == SubSeq(queue, k + 1, Len(queue))

\* _Input.receive_message, "self.__captured_packets.pop(0)": the message
\* returned and the messages left.
PopLast(mailbox) ==
    [result |-> mailbox[Len(mailbox)],
     rest |-> SubSeq(mailbox, 1, Len(mailbox) - 1)]

Pop(mailbox) == [result |-> Head(mailbox), rest |-> Tail(mailbox)]

\* ---------------------------------------------------------- collaborators
\* PathLoss.get_neighbors with a transmission range of 1 on a line: the
\* neighbors of a node are the other nodes at a distance <= the range.
TransmissionRange == 1

Distance(a, b) == IF a < b THEN b - a ELSE a - b

GetNeighbors(coords) ==
    [n \in Nodes |->
        {m \in Nodes \ {n} : Distance(coords[n], coords[m]) <= TransmissionRange}]

\* The values random.uniform gives are kept in 1 / Unit: probabilities are
\* 0 .. Unit, and the times of crash are in 1 / Unit of a step.
Unit == 2

\* RandomGenerator.uniform(0.0, 1.0), "a + (b - a) * random()" with random()
\* in [0.0, 1.0): the values it can return.
UniformUnit == 0 .. (Unit - 1)

\* RandomGenerator.uniform(begin, end): the values it can return, both ends
\* included (the end by rounding).
Uniform(begin, end) == (begin * Unit) .. (end * Unit)

\* Crash.__crashes, "crash <= crash_probability".
Hit(crash) == crash <= crash_probability

\* Crash.__crashes: crashes_number when the loop comes to node_id.
CrashesNumber(hits, node_id) ==
    Cardinality({m \in 0 .. (node_id - 1) : hits[m]})

DrawnWithoutBreak(hits, node_id) == hits[node_id]

\* Crash.__crashes: the loop gives node_id a time of crash when its draw is a
\* hit and the loop has not been left, "if crashes_number ==
\* maximum_crash_number: break".
Drawn(hits, node_id) ==
    /\ hits[node_id]
    /\ CrashesNumber(hits, node_id) < maximum_crash_number

CrashTimesFromZero == Uniform(0, total_simulation_steps)

\* Crash.__crashes, "uniform(0.0 + transient_steps, total_simulation_steps)".
CrashTimes == Uniform(transient_steps, total_simulation_steps)

\* The orders random_order(crashes) can leave the list in.
Orders == {o \in [Nodes -> Nodes] : \A n, m \in Nodes : o[n] = o[m] => n = m}

\* sorted(crashed.iteritems(), key=operator.itemgetter(1)) of the pairs
\* (node, step): ascending steps, the nodes of one step in the order of the
\* dictionary.
RECURSIVE Sorted(_)
Sorted(pairs) ==
    IF pairs = {} THEN << >>
    ELSE LET first == CHOOSE a \in pairs : \A b \in pairs :
                          \/ a[2] < b[2]
                          \/ a[2] = b[2] /\ a[1] <= b[1]
         IN << first >> \o Sorted(pairs \ {first})

\* Crash.__crashes for given draws: the list `crashes` after the loop, its
\* random order, and the sorted pairs (node, int(time)) of its entries > 0.
Crashes(draws, times, order) ==
    IF maximum_crash_number = 0 THEN << >>
    ELSE LET hits == [n \in Nodes |-> Hit(draws[n])]
             crashes == [n \in Nodes |->
                            IF Drawn(hits, n) THEN times[n] ELSE -Unit]
             shuffled == [n \in Nodes |-> crashes[order[n]]]
         IN Sorted({<< n, shuffled[n] \div Unit >> :
                       n \in {m \in Nodes : shuffled[m] > 0}})

\* Crash.__crashes: the lists it can return.
CrashSchedules ==
    {Crashes(draws, times, order) :
        draws \in [Nodes -> UniformUnit], times \in [Nodes -> CrashTimes],
        order \in Orders}

\* Crash.node_failure: the number of entries its loop pops, the leading ones
\* whose step of crash is not after the current step.
CrashesNow ==
    CHOOSE k \in 0 .. Len(crashed) :
        /\ \A i \in 1 .. k : crashed[i][2] <= simulation_step
        /\ k < Len(crashed) => crashed[k + 1][2] > simulation_step

\* ---------------------------------------------------------------- network
\* Network.step: the order of its calls; the communication is the transmit
\* loop and then the deliver loop of Network.__communication.
Phases == << "failure", "move", "neighborhood", "transmit", "deliver",
             "application", "tick" >>

\* The order with the application run before the communication.
PhasesApplicationFirst ==
    << "failure", "move", "neighborhood", "application", "transmit",
       "deliver", "tick" >>

NextPhaseApplicationFirst(p) ==
    LET i == CHOOSE j \in 1 .. Len(PhasesApplicationFirst) :
                 PhasesApplicationFirst[j] = p
    IN IF i = Len(PhasesApplicationFirst)
       THEN PhasesApplicationFirst[1]
       ELSE PhasesApplicationFirst[i + 1]

NextPhase(p) ==
    LET i == CHOOSE j \in 1 .. Len(Phases) : Phases[j] = p
    IN IF i = Len(Phases) THEN Phases[1] ELSE Phases[i + 1]

\* Network.__move: the nodes whose coordinates are recomputed.
MovingNodes == Nodes

\* Network.__neighborhood: the failed neighbors are removed from every list.
FilterNothing(nbrs) == nbrs

FilterFailures(nbrs) ==
    [n \in Nodes |-> nbrs[n] \ {m \in nbrs[n] : failure[m]}]

\* Network.__application: main runs on the nodes that have not failed.
RunsMainAlways(n) == TRUE

RunsMain(n) == ~failure[n]

\* Network.__ENVIRONMENT: the entries of the environment that
\* Network.__init__ requires; each is missing from the dictionary, None, or
\* given.
ENVIRONMENT ==
    {"application", "failure", "mobility", "propagation", "time",
     "maximum_transmission_time", "initial_coordinates", "speed",
     "packet_loss"}

Entries == {"missing", "None", "given"}

\* Network.__init__: environment[key] raises KeyError for a missing key, and
\* KeyError is raised for a key whose value is None.
AbsentWhenMissing(entry) == entry = "missing"

Absent(entry) == entry \in {"missing", "None"}

\* Crash.node_failure, "failures[...] = True": the flags after the nodes of
\* failures have been marked.
NodeFailureOfThisStep(flags, failures) == [n \in Nodes |-> n \in failures]

NodeFailure(flags, failures) == [n \in Nodes |-> flags[n] \/ n \in failures]

\* Network.__failure, "for failure in failures": the nodes whose failure
\* callback is invoked.
FailureCallbacksOfFailed(failures) == failures \cup {n \in Nodes : failure[n]}

FailureCallbacks(failures) == failures

\* Network.finalize: the nodes whose finalize callback is invoked.
FinalizedNodesOperative == {n \in Nodes : ~failure[n]}

FinalizedNodes == Nodes

\* The invocations of a callback counted: one more for every node of invoked.
Invoke(callback, invoked) ==
    [callbacks EXCEPT ![callback] =
        [n \in Nodes |-> IF n \in invoked THEN @[n] + 1 ELSE @[n]]]

\* The two loops of Network.__communication made one: after the transmit of a
\* node its deliver, and then the transmit of the next node.
AdvanceInterleaved(n) ==
    IF phase = "transmit"
    THEN /\ node' = n
         /\ phase' = "deliver"
    ELSE IF phase = "deliver" /\ n + 1 < nodes_number
    THEN /\ node' = n + 1
         /\ phase' = "transmit"
    ELSE IF n + 1 < nodes_number
    THEN /\ node' = n + 1
         /\ phase' = phase
    ELSE /\ node' = 0
         /\ phase' = NextPhase(phase)

\* The loops "for node in range(0, nodes_number)": after node n comes n + 1,
\* and after the last node the next phase.
Advance(n) ==
    IF n + 1 < nodes_number
    THEN /\ node' = n + 1
         /\ phase' = phase
    ELSE /\ node' = 0
         /\ phase' = NextPhase(phase)

LoopStart(n) == [calls |-> 0, initial |-> Len(transmitted_packets[n]),
                 visited |-> << >>]

\* Every node has every other node in its neighbor list.
Together(nbrs) == \A n \in Nodes : nbrs[n] = Nodes \ {n}

\* Network.__init__: KeyError when an entry of the environment is absent;
\* otherwise the neighbors of the initial coordinates, the channels, the
\* failure flags, the initialize callback of every node, and the first tick
\* of the clock.
NetworkInit ==
    /\ phase = "construct"
    /\ IF \E key \in ENVIRONMENT : Absent(environment[key])
       THEN /\ phase' = "error"
            /\ event' = [op |-> "init", raised |-> "KeyError"]
            /\ UNCHANGED << clock_vars, neighbors, in_range, channel_vars,
                            callbacks, current_time, together >>
       ELSE /\ in_range' = GetNeighbors(coordinates)
            /\ neighbors' = in_range'
            /\ together' = Together(neighbors')
            /\ packet_counter' = [n \in Nodes |-> -1]
            /\ next_transmission_time' = [n \in Nodes |-> MinusOne]
            /\ transmitted_packets' = [n \in Nodes |-> << >>]
            /\ captured_packets' = [n \in Nodes |-> << >>]
            /\ callbacks' = Invoke("initialize", Nodes)
            /\ Tick
            /\ current_time' = tick_result'
            /\ phase' = "failure"
            /\ event' = [op |-> "init", raised |-> "nothing"]
    /\ UNCHANGED << node, in_main, coordinates, failure, crashed, loss_always,
                    moved, main_calls, calls, sends, phase_log, deliver_loop,
                    last_end, configuration_vars, step_begin, object_vars, main_pc >>

\* Network.__failure, called by step() as long as Sim2Net.run() has steps
\* left; every step ends with one tick, so simulation_step counts the calls
\* of step() made so far.
Failure ==
    /\ phase = "failure"
    /\ simulation_step < total_simulation_steps
    /\ LET k == CrashesNow
           failures == {crashed[i][1] : i \in 1 .. k}
       IN /\ failure' = NodeFailure(failure, failures)
          /\ crashed' = DropFront(crashed, k)
          /\ callbacks' = Invoke("failure", FailureCallbacks(failures))
          /\ event' = [op |-> "failure", failures |-> failures,
                       invoked |-> FailureCallbacks(failures),
                       time |-> current_time]
    /\ phase' = NextPhase(phase)
    /\ moved' = {}
    /\ main_calls' = [n \in Nodes |-> 0]
    /\ phase_log' = << << "failure", -1 >> >>
    /\ step_begin' = [calls |-> step_begin.calls + 1,
                      packet_counter |-> packet_counter]
    /\ UNCHANGED << clock_vars, node, in_main, coordinates, neighbors,
                    loss_always, in_range, calls, sends, deliver_loop,
                    channel_vars, last_end, configuration_vars, object_vars,
                    current_time, main_pc,
                    together >>

\* Network.__move: the mobility model gives every node a position.
Move ==
    /\ phase = "move"
    /\ \E new \in [MovingNodes -> Coordinates] :
           coordinates' =
               [n \in Nodes |->
                   IF n \in MovingNodes THEN new[n] ELSE coordinates[n]]
    /\ moved' = MovingNodes
    /\ phase' = NextPhase(phase)
    /\ phase_log' = Append(phase_log, << "move", -1 >>)
    /\ event' = [op |-> "move"]
    /\ UNCHANGED << clock_vars, node, in_main, neighbors, failure, crashed,
                    loss_always, in_range, main_calls, calls, sends,
                    deliver_loop, channel_vars, last_end, configuration_vars, step_begin,
                    object_vars, current_time, main_pc, callbacks,
                    together >>

\* What a step observes of a queued packet, once the neighbor list nbrs of
\* its sender at this step is known; the list is a new object, which no
\* packet shares.
Observe(packet, nbrs) ==
    [packet EXCEPT
        !.shares_list = FALSE,
        !.g_window = IF InWindow(packet) THEN @ \cap nbrs ELSE @,
        !.g_left = IF simulation_time < packet.end
                   THEN @ \cup (Nodes \ nbrs) ELSE @,
        !.g_left_in_window =
            IF packet.start <= simulation_time /\ simulation_time < packet.end
            THEN @ \cup (Nodes \ nbrs) ELSE @]

\* Network.__neighborhood.
Neighborhood ==
    /\ phase = "neighborhood"
    /\ in_range' = GetNeighbors(coordinates)
    /\ neighbors' = FilterFailures(in_range')
    /\ together' = (together /\ Together(neighbors'))
    /\ transmitted_packets' =
           [n \in Nodes |->
               [i \in 1 .. Len(transmitted_packets[n]) |->
                   Observe(transmitted_packets[n][i], neighbors'[n])]]
    /\ phase' = NextPhase(phase)
    /\ node' = 0
    /\ phase_log' = Append(phase_log, << "neighborhood", -1 >>)
    /\ event' = [op |-> "neighborhood"]
    /\ UNCHANGED << clock_vars, in_main, coordinates, failure, crashed,
                    loss_always, moved, main_calls, calls, sends,
                    deliver_loop, packet_counter, next_transmission_time,
                    captured_packets, last_end, configuration_vars, step_begin,
                    object_vars, current_time, main_pc, callbacks >>

CommunicatesWhenOperative(n) == ~failure[n]

\* Network.__communication, "for node in range(0, self.__nodes_number)":
\* the loops take every node, whatever its failure flag.
Communicates(n) == TRUE

\* Network.__communication, first loop: transmit_packets of the next node.
Transmit ==
    /\ phase = "transmit"
    /\ IF Communicates(node)
       THEN TransmitPackets(node, neighbors[node])
       ELSE UNCHANGED channel_vars
    /\ IF AssertionFails(node, neighbors[node]) # {}
       THEN /\ phase' = "error"
            /\ UNCHANGED << node, phase_log, deliver_loop >>
       ELSE /\ Advance(node)
            /\ phase_log' = Append(phase_log, << "transmit", node >>)
            /\ deliver_loop' = LoopStart(0)
    /\ event' = [op |-> "transmit", node |-> node,
                 neighbors |-> neighbors[node],
                 raised |-> IF AssertionFails(node, neighbors[node]) # {}
                            THEN "AssertionError" ELSE "nothing"]
    /\ UNCHANGED << clock_vars, in_main, coordinates, neighbors, failure,
                    crashed, loss_always, in_range, moved, main_calls, calls,
                    sends, last_end, configuration_vars, step_begin, object_vars,
                    current_time, main_pc, callbacks,
                    together >>

\* Network.__communication, second loop: one call of deliver_packet on the
\* next node and the capture of what it returns.  The call drops the first k
\* packets (ready, and left without receivers by the losses) and then either
\* returns None (no packet left, or the front one not ready), or returns the
\* front packet with the receivers the losses left; a ready packet whose
\* neighbors are still None makes the call raise.
Deliver ==
    /\ phase = "deliver"
    /\ LET queue == transmitted_packets[node]
       IN \E k \in 0 .. Len(queue) :
            /\ \A i \in 1 .. k :
                  /\ Ready(queue[i])
                  /\ queue[i].neighbors # None
                  /\ AllLost(queue[i].neighbors[1]) # {}
            /\ \/ /\ IF k = Len(queue) THEN TRUE ELSE ~Ready(queue[k + 1])
                  /\ transmitted_packets' =
                         [transmitted_packets EXCEPT ![node] = DropFront(queue, k)]
                  /\ Advance(node)
                  /\ deliver_loop' =
                         IF node + 1 < nodes_number
                         THEN LoopStart(node + 1) ELSE LoopStart(0)
                  /\ phase_log' = Append(phase_log, << "deliver", node >>)
                  /\ event' =
                         [op |-> "deliver", node |-> node, result |-> None,
                          dropped |-> SubSeq(queue, 1, k),
                          draws |-> [i \in 1 .. k |->
                              CHOOSE d \in AllLost(queue[i].neighbors[1]) : TRUE],
                          targets |-> {}, draw |-> << >>,
                          loop |-> [deliver_loop EXCEPT
                              !.calls = @ + 1,
                              !.visited = @ \o [i \in 1 .. k |-> queue[i].end]]]
                  /\ UNCHANGED captured_packets
               \/ /\ k < Len(queue)
                  /\ Ready(queue[k + 1])
                  /\ queue[k + 1].neighbors # None
                  /\ deliver_loop' =
                         [deliver_loop EXCEPT
                             !.calls = @ + 1,
                             !.visited =
                                 @ \o [i \in 1 .. (k + 1) |-> queue[i].end]]
                  /\ \E d \in Draws(queue[k + 1].neighbors[1]) :
                        LET packet == queue[k + 1]
                            receivers ==
                                Remaining(packet.neighbors[1], LossesOf(d))
                        IN /\ Returned(receivers)
                           /\ CapturePacket(receivers, packet)
                           /\ event' =
                                  [op |-> "deliver", node |-> node,
                                   result |-> Some([packet EXCEPT
                                       !.neighbors = Some(receivers)]),
                                   dropped |-> SubSeq(queue, 1, k),
                                   draws |-> [i \in 1 .. k |->
                                       CHOOSE a \in
                                           AllLost(queue[i].neighbors[1]) : TRUE],
                                   targets |-> packet.neighbors[1],
                                   draw |-> d,
                                   loop |-> deliver_loop']
                  /\ transmitted_packets' =
                         [transmitted_packets EXCEPT
                             ![node] = DropFront(queue, k + 1)]
                  /\ UNCHANGED << phase, node, phase_log >>
               \/ /\ k < Len(queue)
                  /\ Ready(queue[k + 1])
                  /\ queue[k + 1].neighbors = None
                  /\ phase' = "error"
                  /\ event' = [op |-> "deliver", node |-> node,
                               result |-> None, dropped |-> << >>,
                               draws |-> << >>, targets |-> {},
                               draw |-> << >>,
                               loop |-> deliver_loop]
                  /\ UNCHANGED << node, phase_log, deliver_loop,
                                  transmitted_packets, captured_packets >>
    /\ UNCHANGED << clock_vars, in_main, coordinates, neighbors, failure,
                    crashed, loss_always, in_range, moved, main_calls, calls,
                    sends, packet_counter, next_transmission_time, last_end,
                    configuration_vars, step_begin, object_vars, current_time, main_pc,
                    callbacks,
                    together >>

\* The applications.  "any" makes any calls of send and receive within
\* main, MaxCalls of them at most; "HelloWorld" is the application of the
\* template: node 0 sends one message at step 1, and every node receives
\* until it gets None.  main_pc is the position within HelloWorld.main.
MainEntry ==
    IF application = "HelloWorld"
    THEN IF node = 0 /\ current_time[1] = 1 THEN "send" ELSE "receive"
    ELSE "any"

MaySend(message) ==
    IF application = "HelloWorld"
    THEN main_pc = "send" /\ ~Discarded(message)
    ELSE /\ calls < MaxCalls
         /\ Discarded(message) \/ (sends < MaxSends /\ node \in SendingNodes)

MayReceive ==
    IF application = "HelloWorld" THEN main_pc = "receive" ELSE calls < MaxCalls

MayReturn ==
    IF application = "HelloWorld" THEN main_pc = "return" ELSE TRUE

\* Network.__application, one turn of its loop: main is entered on a node
\* that has not failed, and a failed node is passed over.
Application ==
    /\ phase = "application"
    /\ ~in_main
    /\ IF RunsMain(node)
       THEN /\ in_main' = TRUE
            /\ main_calls' = [main_calls EXCEPT ![node] = @ + 1]
            /\ main_pc' = MainEntry
            /\ event' = [op |-> "main", node |-> node]
            /\ UNCHANGED << phase, node, phase_log >>
       ELSE /\ Advance(node)
            /\ phase_log' = Append(phase_log, << "application", node >>)
            /\ event' = [op |-> "skip", node |-> node]
            /\ UNCHANGED << in_main, main_calls, main_pc >>
    /\ calls' = 0
    /\ UNCHANGED << clock_vars, coordinates, neighbors, failure, crashed,
                    loss_always, in_range, moved, sends, deliver_loop,
                    channel_vars, last_end, configuration_vars, step_begin, object_vars,
                    current_time, callbacks,
                    together >>

\* Network.communication_send, called by the application within main with
\* an object of the content message: the object is copied, and the copy is
\* given to send_message of the node's channel.
CommunicationSend ==
    /\ phase = "application"
    /\ in_main
    /\ \E message \in Messages, duration \in TransmissionTimes :
          LET object == Original(node, NextPacketId(packet_counter[node]))
              copy == DeepCopy(object)
          IN /\ MaySend(message)
             /\ SendMessage(node, copy, message, neighbors[node], duration)
             /\ sends' = IF Discarded(message) THEN sends ELSE sends + 1
             /\ heap' = IF Discarded(message)
                        THEN heap
                        ELSE (object :> message) @@ (copy :> message) @@ heap
             /\ sent_payload' =
                    IF Discarded(message)
                    THEN sent_payload
                    ELSE (<< object[1], object[2] >> :> message)
                             @@ sent_payload
             /\ event' = [op |-> "send", node |-> node, message |-> message,
                          time |-> simulation_time,
                          previous_end |-> last_end[node],
                          before |-> << packet_counter[node],
                                        next_transmission_time[node],
                                        transmitted_packets[node] >>]
    /\ calls' = calls + 1
    /\ main_pc' = IF application = "HelloWorld" THEN "receive" ELSE main_pc
    /\ UNCHANGED << clock_vars, phase, node, in_main, coordinates, neighbors,
                    failure, crashed, loss_always, in_range, moved,
                    main_calls, phase_log, deliver_loop, configuration_vars, step_begin,
                    current_time, callbacks,
                    together >>

\* _Input.receive_message: the oldest captured message, or None.
ReceiveMessage(n) ==
    IF captured_packets[n] = << >>
    THEN None
    ELSE Some(Pop(captured_packets[n]).result)

\* Network.communication_receive, called by the application within main.
CommunicationReceive ==
    /\ phase = "application"
    /\ in_main
    /\ MayReceive
    /\ event' = [op |-> "receive", node |-> node,
                 result |-> ReceiveMessage(node),
                 step |-> current_time[1]]
    /\ captured_packets' =
           [captured_packets EXCEPT
               ![node] = IF @ = << >> THEN @ ELSE Pop(@).rest]
    /\ calls' = calls + 1
    /\ main_pc' = IF application = "HelloWorld"
                  THEN IF ReceiveMessage(node) = None
                       THEN "return" ELSE "receive"
                  ELSE main_pc
    /\ UNCHANGED << clock_vars, phase, node, in_main, coordinates, neighbors,
                    failure, crashed, loss_always, in_range, moved,
                    main_calls, sends, phase_log, deliver_loop,
                    packet_counter, next_transmission_time,
                    transmitted_packets, last_end, configuration_vars, step_begin,
                    object_vars, current_time, callbacks,
                    together >>

\* The application changes, within main, the content of an object it passed
\* to send before.
ApplicationMutates ==
    /\ phase = "application"
    /\ in_main
    /\ \E object \in DOMAIN heap :
          /\ object[1] = node
          /\ object[3] = "original"
          /\ heap[object] # MutatedMessage
          /\ heap' = [heap EXCEPT ![object] = MutatedMessage]
          /\ event' = [op |-> "mutate", node |-> node, object |-> object]
    /\ UNCHANGED << clock_vars, network_vars, channel_vars, last_end,
                    configuration_vars, step_begin, sent_payload, current_time, main_pc,
                    callbacks,
                    together >>

\* The application changes in place, within main, the list of neighbors main
\* was handed, which is Network.__nodes['neighbors'][node] itself: every
\* packet of the node that shares the list changes with it.
ApplicationMutatesNeighbors ==
    /\ phase = "application"
    /\ in_main
    /\ \E changed \in (SUBSET (Nodes \ {node})) \ {neighbors[node]} :
          /\ neighbors' = [neighbors EXCEPT ![node] = changed]
          /\ transmitted_packets' =
                 [transmitted_packets EXCEPT ![node] =
                     [i \in 1 .. Len(@) |->
                         IF @[i].shares_list
                         THEN [@[i] EXCEPT !.neighbors = Some(changed)]
                         ELSE @[i]]]
          /\ event' = [op |-> "mutate_neighbors", node |-> node,
                       before |-> transmitted_packets]
    /\ UNCHANGED << clock_vars, phase, node, in_main, coordinates, failure,
                    crashed, loss_always, in_range, moved, main_calls, calls,
                    sends, phase_log, deliver_loop, packet_counter,
                    next_transmission_time, captured_packets, last_end,
                    configuration_vars, step_begin, object_vars, current_time, main_pc,
                    callbacks, together >>

\* The application changes, within main, the content of the object that the
\* receive() it has just called returned.
ApplicationMutatesReceived ==
    /\ phase = "application"
    /\ in_main
    /\ event.op = "receive"
    /\ event.node = node
    /\ event.result # None
    /\ LET object == event.result[1][2]
       IN /\ heap[object] # MutatedMessage
          /\ heap' = [heap EXCEPT ![object] = MutatedMessage]
          /\ event' = [op |-> "mutate_received", node |-> node,
                       object |-> object]
    /\ UNCHANGED << clock_vars, network_vars, channel_vars, last_end,
                    configuration_vars, step_begin, sent_payload, current_time, main_pc,
                    callbacks, together >>

\* The application's main returns, and the loop of Network.__application
\* goes on.
MainReturn ==
    /\ phase = "application"
    /\ in_main
    /\ MayReturn
    /\ in_main' = FALSE
    /\ main_pc' = "any"
    /\ Advance(node)
    /\ phase_log' = Append(phase_log, << "application", node >>)
    /\ event' = [op |-> "return", node |-> node]
    /\ UNCHANGED << clock_vars, coordinates, neighbors, failure, crashed,
                    loss_always, in_range, moved, main_calls, calls, sends,
                    deliver_loop, channel_vars, last_end, configuration_vars, step_begin,
                    object_vars, current_time, callbacks,
                    together >>

\* Network.step, its last statement: the tick of the clock.
StepTick ==
    /\ phase = "tick"
    /\ Tick
    /\ current_time' = tick_result'
    /\ phase' = NextPhase(phase)
    /\ phase_log' = Append(phase_log, << "tick", -1 >>)
    /\ event' = [op |-> "tick"]
    /\ UNCHANGED << node, in_main, coordinates, neighbors, failure, crashed,
                    loss_always, in_range, moved, main_calls, calls, sends,
                    deliver_loop, channel_vars, last_end, configuration_vars, step_begin,
                    object_vars, main_pc, callbacks,
                    together >>

\* Sim2Net.run: after total_simulation_steps steps, Network.finalize, which
\* invokes the finalize callback of every node.
Finalize ==
    /\ phase = "failure"
    /\ simulation_step >= total_simulation_steps
    /\ phase' = "done"
    /\ callbacks' = Invoke("finalize", FinalizedNodes)
    /\ event' = [op |-> "finalize"]
    /\ UNCHANGED << clock_vars, node, in_main, coordinates, neighbors,
                    failure, crashed, loss_always, in_range, moved,
                    main_calls, calls, sends, phase_log, deliver_loop,
                    channel_vars, last_end, configuration_vars, step_begin, object_vars,
                    current_time, main_pc,
                    together >>

\* The configuration of a run.
Configuration(nodes, steps, time, app) ==
    /\ nodes_number = nodes
    /\ total_simulation_steps = steps
    /\ maximum_transmission_time = time
    /\ application = app

\* The arguments of the Crash object of a run.
CrashModel(probability, maximum, transient) ==
    /\ crash_probability = probability
    /\ maximum_crash_number = maximum
    /\ transient_steps = transient

\* The Crash model of the configuration template, which fails no node: a
\* crash probability above 0 and maximum_crash_number = 0.
NoCrash ==
    /\ CrashModel(1, 0, 0)
    /\ crashed = << >>

\* No Channel is constructed on its own and no Gilbert-Elliott object is
\* called on its own.
NothingOnItsOwn ==
    /\ channel_arguments = None
    /\ prhk = None
    /\ current_state = None
    /\ loss_calls = 0

\* A Time object that has not been set up: it has no fields yet.
NewClock ==
    /\ simulation_frequency = None
    /\ simulation_step = None
    /\ simulation_time = None
    /\ ticks = 0
    /\ tick_result = None

\* A Time object after setup(frequency), not ticked yet.
SetUpClock(frequency) ==
    /\ simulation_frequency = frequency
    /\ simulation_step = -1
    /\ simulation_time = MinusOne
    /\ ticks = 0
    /\ tick_result = None

\* No Network object yet: no channel exists, no callback has been invoked,
\* and nothing has been observed.
NoNetwork ==
    /\ node = 0
    /\ in_main = FALSE
    /\ main_pc = "any"
    /\ current_time = None
    /\ neighbors = [n \in Nodes |-> {}]
    /\ in_range = [n \in Nodes |-> {}]
    /\ failure = [n \in Nodes |-> FALSE]
    /\ packet_counter = << >>
    /\ next_transmission_time = << >>
    /\ transmitted_packets = << >>
    /\ captured_packets = << >>
    /\ heap = << >>
    /\ sent_payload = << >>
    /\ moved = {}
    /\ main_calls = [n \in Nodes |-> 0]
    /\ calls = 0
    /\ sends = 0
    /\ last_end = [n \in Nodes |-> None]
    /\ phase_log = << >>
    /\ deliver_loop = [calls |-> 0, initial |-> 0, visited |-> << >>]
    /\ callbacks = [c \in {"initialize", "failure", "finalize"} |->
                       [n \in Nodes |-> 0]]
    /\ together = TRUE
    /\ step_begin = [calls |-> 0, packet_counter |-> << >>]
    /\ event = [op |-> "nothing"]

\* An environment with every entry given.
Given == [key \in ENVIRONMENT |-> "given"]

\* The state after Sim2Net.__init__ has set the clock up and built the
\* collaborators, before it constructs the network.
Init ==
    /\ Configuration(NodesNumber, TotalSimulationSteps,
                     MaximumTransmissionTime, "any")
    /\ environment = Given
    /\ SetUpClock(SimulationFrequency)
    /\ NoNetwork
    /\ phase = "construct"
    /\ coordinates \in [Nodes -> Coordinates]
    /\ CrashModel(1, MaximumCrashNumber, 0)
    /\ crashed \in CrashSchedules
    /\ NothingOnItsOwn
    /\ loss_always \in BOOLEAN
    /\ loss_never = FALSE

Next ==
    \/ NetworkInit
    \/ Failure
    \/ Move
    \/ Neighborhood
    \/ Transmit
    \/ Deliver
    \/ Application
    \/ CommunicationSend
    \/ CommunicationReceive
    \/ MainReturn
    \/ StepTick
    \/ Finalize

Spec == Init /\ [][Next]_vars

\* ------------------------------------------------------- the clock alone
\* A new Time object, its setup called with a frequency, valid or not, and
\* then its tick() called again and again.
InvalidFrequencies == {-1, 0}

InitClock ==
    /\ Configuration(NodesNumber, TotalSimulationSteps,
                     MaximumTransmissionTime, "any")
    /\ environment = Given
    /\ NewClock
    /\ NoNetwork
    /\ phase = "new"
    /\ coordinates = [n \in Nodes |-> 0]
    /\ NoCrash
    /\ NothingOnItsOwn
    /\ loss_always = FALSE
    /\ loss_never = FALSE

ClockSetup ==
    /\ phase = "new"
    /\ \E frequency \in Frequencies \cup InvalidFrequencies : Setup(frequency)
    /\ UNCHANGED << ticks, tick_result, node, in_main, coordinates, neighbors,
                    failure, crashed, loss_always, in_range, moved,
                    main_calls, calls, sends, phase_log, deliver_loop,
                    channel_vars, last_end, configuration_vars, step_begin, object_vars,
                    current_time, main_pc, callbacks, together >>

ClockTick ==
    /\ phase = "clock"
    /\ ticks < MaxTicks
    /\ Tick
    /\ event' = [op |-> "tick"]
    /\ UNCHANGED << network_vars, channel_vars, last_end, configuration_vars, step_begin,
                    object_vars, current_time, main_pc, callbacks, together >>

NextClock ==
    \/ ClockSetup
    \/ ClockTick

SpecClock == InitClock /\ [][NextClock]_vars

\* ------------------------------------------------------ the construction
\* Network.__init__ called with an environment whose entries are each
\* missing, None or given.
InitConstruction ==
    /\ Configuration(HelloWorldNodes, TotalSimulationSteps,
                     MaximumTransmissionTime, "any")
    /\ environment \in [ENVIRONMENT -> Entries]
    /\ SetUpClock(SimulationFrequency)
    /\ NoNetwork
    /\ phase = "construct"
    /\ coordinates = [n \in Nodes |-> 0]
    /\ NoCrash
    /\ NothingOnItsOwn
    /\ loss_always = FALSE
    /\ loss_never = FALSE

SpecConstruction == InitConstruction /\ [][NetworkInit]_vars

\* ------------------------------------------------------- the Hello World
\* The run of the templates: two nodes, no crash, the application
\* HelloWorld, a maximum transmission time of 0.125, and here a packet loss
\* model that loses nothing.
InitHelloWorld ==
    /\ Configuration(HelloWorldNodes, HelloWorldSteps,
                     HelloWorldTransmissionTime, "HelloWorld")
    /\ environment = Given
    /\ SetUpClock(SimulationFrequency)
    /\ NoNetwork
    /\ phase = "construct"
    /\ coordinates \in [Nodes -> Coordinates]
    /\ NoCrash
    /\ NothingOnItsOwn
    /\ loss_always = FALSE
    /\ loss_never = TRUE

SpecHelloWorld == InitHelloWorld /\ [][Next]_vars

\* ------------------------------------------- the mutation of sent objects
\* Two nodes whose applications also change, after a send, the content of
\* the objects they passed to it, and the list of neighbors they were
\* handed.
InitMutation ==
    /\ Configuration(HelloWorldNodes, TotalSimulationSteps,
                     MaximumTransmissionTime, "any")
    /\ environment = Given
    /\ SetUpClock(SimulationFrequency)
    /\ NoNetwork
    /\ phase = "construct"
    /\ coordinates \in [Nodes -> Coordinates]
    /\ NoCrash
    /\ NothingOnItsOwn
    /\ loss_always = FALSE
    /\ loss_never = TRUE

NextMutation ==
    \/ Next
    \/ ApplicationMutates
    \/ ApplicationMutatesNeighbors

SpecMutation == InitMutation /\ [][NextMutation]_vars

\* --------------------------------------- the mutation of received objects
\* Three nodes that start at one place, whose applications also change the
\* content of the objects receive() returns to them; no packet is lost.
InitReceivers ==
    /\ Configuration(NodesNumber, TotalSimulationSteps,
                     MaximumTransmissionTime, "any")
    /\ environment = Given
    /\ SetUpClock(SimulationFrequency)
    /\ NoNetwork
    /\ phase = "construct"
    /\ coordinates = [n \in Nodes |-> 0]
    /\ NoCrash
    /\ NothingOnItsOwn
    /\ loss_always = FALSE
    /\ loss_never = TRUE

NextReceivers ==
    \/ Next
    \/ ApplicationMutatesReceived

SpecReceivers == InitReceivers /\ [][NextReceivers]_vars

\* ------------------------------------------------------ the crash model
\* Runs with a Crash model of any crash probability, any maximum number of
\* crashes up to MaxCrashes and any transient period; the application is
\* HelloWorld, the nodes start at one place and no packet is lost.
MaxCrashes == 2

InitCrash ==
    /\ Configuration(NodesNumber, TotalSimulationSteps,
                     HelloWorldTransmissionTime, "HelloWorld")
    /\ environment = Given
    /\ SetUpClock(SimulationFrequency)
    /\ NoNetwork
    /\ phase = "construct"
    /\ coordinates = [n \in Nodes |-> 0]
    /\ \E probability \in 0 .. Unit, maximum \in 0 .. MaxCrashes,
          transient \in 0 .. total_simulation_steps :
            CrashModel(probability, maximum, transient)
    /\ crashed \in CrashSchedules
    /\ NothingOnItsOwn
    /\ loss_always = FALSE
    /\ loss_never = TRUE

SpecCrash == InitCrash /\ [][Next]_vars

\* ------------------------------------- the Gilbert-Elliott model on its own
\* A GilbertElliott object constructed with parameters p, r, h, k of
\* 0 .. Unit (0.0 to 1.0), and its packet_loss() called again and again.
MaxLossCalls == 3

\* GilbertElliott.__init__, "self.__state_g = ('G', p, g)" and
\* "self.__state_b = ('B', r, b)" with g = 1.0 - k and b = 1.0 - h: the
\* transition probability and the packet error rate of a state.
TransitionProbability(state) == IF state = "G" THEN prhk[1][1] ELSE prhk[1][2]

ErrorRate(state) ==
    IF state = "G" THEN Unit - prhk[1][4] ELSE Unit - prhk[1][3]

\* GilbertElliott.packet_loss: the state after the transition draw.
Transition(state, transition) ==
    IF transition <= TransitionProbability(state)
    THEN IF state = "G" THEN "B" ELSE "G"
    ELSE state

\* GilbertElliott.packet_loss: two draws of uniform(0.0, 1.0), the first for
\* the change of state, the second compared with the error rate of the state
\* the object is then in.
PacketLoss ==
    /\ phase = "loss"
    /\ loss_calls < MaxLossCalls
    /\ loss_calls' = loss_calls + 1
    /\ \E transition \in UniformUnit, loss \in UniformUnit :
          /\ current_state' = Transition(current_state, transition)
          /\ event' = [op |-> "packet_loss", transition |-> transition,
                       loss |-> loss, state |-> current_state',
                       result |-> (loss <= ErrorRate(current_state'))]
    /\ UNCHANGED << clock_vars, network_vars, channel_vars, object_vars,
                    nodes_number, total_simulation_steps,
                    maximum_transmission_time, application, loss_never,
                    environment, channel_arguments, crash_vars, prhk,
                    current_time, main_pc, callbacks, together, last_end,
                    step_begin >>

InitGilbertElliott ==
    /\ Configuration(HelloWorldNodes, TotalSimulationSteps,
                     MaximumTransmissionTime, "any")
    /\ environment = Given
    /\ SetUpClock(SimulationFrequency)
    /\ NoNetwork
    /\ phase = "loss"
    /\ coordinates = [n \in Nodes |-> 0]
    /\ NoCrash
    /\ channel_arguments = None
    /\ prhk \in {Some(parameters) : parameters \in [1 .. 4 -> 0 .. Unit]}
    /\ current_state = "G"
    /\ loss_calls = 0
    /\ loss_always = FALSE
    /\ loss_never = FALSE

SpecGilbertElliott == InitGilbertElliott /\ [][PacketLoss]_vars

\* ------------------------------------------------ the channel on its own
\* Channel.__init__ called with a time and a packet loss object that are each
\* None or given, and with a node identifier and a maximum transmission time
\* on both sides of zero.
MaxArgument == 2

Arguments ==
    [time : {"None", "given"}, packet_loss : {"None", "given"},
     node_id : (-MaxArgument) .. MaxArgument,
     maximum_transmission_time : (-MaxArgument) .. MaxArgument]

RaisesForObjectsAndNode(arguments) ==
    \/ arguments.time = "None"
    \/ arguments.packet_loss = "None"
    \/ arguments.node_id < 0

\* Channel.__init__: the conditions of its four "raise ValueError".
Raises(arguments) ==
    \/ arguments.time = "None"
    \/ arguments.packet_loss = "None"
    \/ arguments.node_id < 0
    \/ arguments.maximum_transmission_time < 0

\* Channel.__init__: it raises, or _Output.__init__ and _Input.__init__ give
\* the channel of node_id its fields.
ChannelInit ==
    /\ phase = "channel"
    /\ IF Raises(channel_arguments[1])
       THEN /\ phase' = "error"
            /\ event' = [op |-> "channel", raised |-> "ValueError"]
            /\ UNCHANGED channel_vars
       ELSE LET node_id == {channel_arguments[1].node_id}
            IN /\ phase' = "constructed"
               /\ event' = [op |-> "channel", raised |-> "nothing"]
               /\ packet_counter' = [n \in node_id |-> -1]
               /\ next_transmission_time' = [n \in node_id |-> MinusOne]
               /\ transmitted_packets' = [n \in node_id |-> << >>]
               /\ captured_packets' = [n \in node_id |-> << >>]
    /\ UNCHANGED << clock_vars, node, in_main, coordinates, neighbors, failure,
                    crashed, loss_always, in_range, moved, main_calls, calls,
                    sends, phase_log, deliver_loop, last_end,
                    configuration_vars, step_begin, object_vars, current_time, main_pc,
                    callbacks, together >>

InitChannel ==
    /\ Configuration(HelloWorldNodes, TotalSimulationSteps,
                     MaximumTransmissionTime, "any")
    /\ environment = Given
    /\ SetUpClock(SimulationFrequency)
    /\ NoNetwork
    /\ phase = "channel"
    /\ coordinates = [n \in Nodes |-> 0]
    /\ NoCrash
    /\ channel_arguments \in {Some(a) : a \in Arguments}
    /\ prhk = None
    /\ current_state = None
    /\ loss_calls = 0
    /\ loss_always = FALSE
    /\ loss_never = FALSE

SpecChannel == InitChannel /\ [][ChannelInit]_vars

\* -------------------------------------------- send_message on its own
\* _Output.send_message on a channel constructed on its own, with the loop
\* that draws the transmission time taken one iteration at a time.  The
\* channel is given the maximum transmission time of the configuration.
\* uniform(0.0, maximum_transmission_time): the values one draw can give,
\* both ends included.
UniformTransmissionTime == 0 .. maximum_transmission_time

\* "if message_transmission_time > 0.0: break".
Breaks(message_transmission_time) == message_transmission_time > 0

\* send_message(message, []) up to the loop: an empty message is discarded,
\* and otherwise the packet counter is incremented and the loop entered.
SendMessageBegin ==
    /\ phase = "constructed"
    /\ LET n == channel_arguments[1].node_id
       IN /\ packet_counter[n] + 1 < MaxSends
          /\ \E message \in Messages :
                IF Discarded(message)
                THEN /\ event' = [op |-> "send_message", node |-> n,
                                  message |-> message,
                                  returned |-> TRUE]
                     /\ UNCHANGED << phase, packet_counter >>
                ELSE /\ packet_counter' =
                            [packet_counter EXCEPT ![n] = NextPacketId(@)]
                     /\ phase' = "drawing"
                     /\ event' = [op |-> "send_message", node |-> n,
                                  message |-> message,
                                  returned |-> FALSE]
    /\ UNCHANGED << clock_vars, node, in_main, coordinates, neighbors, failure,
                    crashed, loss_always, in_range, moved, main_calls, calls,
                    sends, phase_log, deliver_loop, next_transmission_time,
                    transmitted_packets, captured_packets, last_end,
                    configuration_vars, step_begin, object_vars,
                    current_time, main_pc, callbacks, together >>

\* One iteration of the loop: a draw that breaks it is followed by the rest
\* of send_message, which queues the packet; any other draw leaves the call
\* in the loop.
SendMessageDraw ==
    /\ phase = "drawing"
    /\ LET n == channel_arguments[1].node_id
           start == TransmissionStart(next_transmission_time[n],
                                      simulation_time)
       IN \E message_transmission_time \in UniformTransmissionTime :
             IF Breaks(message_transmission_time)
             THEN /\ transmitted_packets' =
                         [transmitted_packets EXCEPT ![n] =
                             Append(@,
                                 [NewPacket(n, DeepCopy(Original(n, packet_counter[n])),
                                            {}, start,
                                            message_transmission_time)
                                     EXCEPT !.id = packet_counter[n]])]
                  /\ next_transmission_time' =
                         [next_transmission_time EXCEPT
                             ![n] = start + message_transmission_time]
                  /\ last_end' =
                         [last_end EXCEPT
                             ![n] = Some(start + message_transmission_time)]
                  /\ phase' = "constructed"
                  /\ event' = [op |-> "draw", node |-> n,
                               message_transmission_time |->
                                   message_transmission_time,
                               returned |-> TRUE]
             ELSE /\ event' = [op |-> "draw", node |-> n,
                               message_transmission_time |->
                                   message_transmission_time,
                               returned |-> FALSE]
                  /\ UNCHANGED << phase, transmitted_packets,
                                  next_transmission_time, last_end >>
    /\ UNCHANGED << clock_vars, node, in_main, coordinates, neighbors, failure,
                    crashed, loss_always, in_range, moved, main_calls, calls,
                    sends, phase_log, deliver_loop, packet_counter,
                    captured_packets, configuration_vars, step_begin,
                    object_vars, current_time, main_pc, callbacks, together >>

InitSendMessage ==
    /\ \E arguments \in Arguments :
           /\ channel_arguments = Some(arguments)
           /\ Configuration(HelloWorldNodes, TotalSimulationSteps,
                            arguments.maximum_transmission_time, "any")
    /\ environment = Given
    /\ SetUpClock(SimulationFrequency)
    /\ NoNetwork
    /\ phase = "channel"
    /\ coordinates = [n \in Nodes |-> 0]
    /\ NoCrash
    /\ prhk = None
    /\ current_state = None
    /\ loss_calls = 0
    /\ loss_always = FALSE
    /\ loss_never = FALSE

NextSendMessage ==
    \/ ChannelInit
    \/ SendMessageBegin
    \/ SendMessageDraw

SpecSendMessage == InitSendMessage /\ [][NextSendMessage]_vars

\* ------------------------------------------------------------ properties
\* C1: after setup(f) with f > 0 the n-th call of tick(), counting from 0,
\* returns (n, n/f), the first call returns (0, 0.0), and after any number
\* of ticks simulation_time * f = simulation_step.
C1_TickReturns ==
    ticks > 0 =>
        /\ tick_result[1] = ticks - 1
        /\ tick_result[2] * simulation_frequency = (ticks - 1) * Resolution
        /\ ticks = 1 => tick_result = << 0, 0 >>
        /\ simulation_step = tick_result[1]
        /\ simulation_time * simulation_frequency =
               simulation_step * Resolution

\* The fifth tick of a clock of frequency 4 returns (4, 1.0), as in the
\* doctest of Time.setup.
C1_Witness ==
    /\ phase = "clock"
    /\ simulation_frequency = 4
    /\ ticks = 5
    /\ tick_result = << 4, Resolution >>

\* What the event of a deliver_packet call says it returned.
Delivered == event.op = "deliver" /\ event.result # None

\* C2: every packet a sender creates starts at or after the clock's time at
\* the send and at or after the end of the packet it created before, so the
\* windows of one sender never overlap.
C2_WindowsDoNotOverlap ==
    /\ (event.op = "send" /\ event.message # "") =>
           LET queue == transmitted_packets[event.node]
               packet == queue[Len(queue)]
           IN /\ Len(queue) > 0
              /\ packet.start >= event.time
              /\ event.previous_end # None =>
                     packet.start >= event.previous_end[1]
    /\ \A n \in DOMAIN transmitted_packets :
           \A i, j \in 1 .. Len(transmitted_packets[n]) :
               i < j => transmitted_packets[n][j].start >=
                            transmitted_packets[n][i].end

\* A second send in the step of the first: its packet starts at the end of
\* the first one, which started at the clock's time.
C2_Witness ==
    /\ event.op = "send"
    /\ event.message # ""
    /\ Len(transmitted_packets[event.node]) = 2
    /\ transmitted_packets[event.node][1].start = simulation_time
    /\ transmitted_packets[event.node][2].start =
           transmitted_packets[event.node][1].end
    /\ event.previous_end = Some(transmitted_packets[event.node][1].end)

\* C3: the receivers of every packet deliver_packet returns are neighbors of
\* the sender, after the filtering of the failed nodes, at every step whose
\* time lies within the packet's window.
C3_TargetsWithinWindowNeighbors ==
    Delivered => event.result[1].neighbors[1] \subseteq event.result[1].g_window

\* A packet is returned with a receiver while another node was missing from
\* the sender's list at a step of its window.
C3_Witness ==
    /\ Delivered
    /\ event.result[1].neighbors[1] # {}
    /\ event.result[1].g_window # Nodes \ {event.node}
    /\ event.result[1].g_window # Nodes

\* C4 as stated: a node absent from the sender's neighbor list at some step
\* before the end of a packet's window is not among its receivers.
C4_AbsentBeforeEndNeverReceives ==
    Delivered => event.result[1].neighbors[1] \cap event.result[1].g_left = {}

\* C4, amended: a node absent from the sender's neighbor list at some step
\* whose time is at or after the start of a packet's window and before its
\* end is not among the packet's receivers, also when it is in the list
\* again at a later step.
C4_AbsentWithinWindowNeverReceives ==
    Delivered =>
        event.result[1].neighbors[1] \cap event.result[1].g_left_in_window = {}

\* A packet is returned to a receiver while another node, absent at a step
\* of the window, is back in the sender's list at the delivery.
C4_Witness ==
    /\ Delivered
    /\ event.result[1].neighbors[1] # {}
    /\ \E b \in event.result[1].g_left_in_window :
           /\ b # event.node
           /\ b \in neighbors[event.node]

\* ExpectedLog: the operations of one step() in the order of Network.step and
\* of the loops of Network.__communication and Network.__application.
ExpectedLog ==
    << << "failure", -1 >>, << "move", -1 >>, << "neighborhood", -1 >> >>
    \o [i \in 1 .. nodes_number |-> << "transmit", i - 1 >>]
    \o [i \in 1 .. nodes_number |-> << "deliver", i - 1 >>]
    \o [i \in 1 .. nodes_number |-> << "application", i - 1 >>]
    \o << << "tick", -1 >> >>

IsPrefix(a, b) == Len(a) <= Len(b) /\ a = SubSeq(b, 1, Len(a))

NonDecreasing(seq) == \A i, j \in 1 .. Len(seq) : i < j => seq[i] <= seq[j]

\* C5: the calls of deliver_packet that the loop of one node makes until None
\* is returned visit the packets in non-decreasing order of their ends, visit
\* only packets whose transmission has ended and remove each of them, leave
\* no packet with window_end <= the clock's time when None is returned, and
\* are at most one more than the packets queued when the loop began.
C5_DeliverDrains ==
    event.op = "deliver" =>
        LET queue == transmitted_packets[event.node]
            loop == event.loop
        IN /\ NonDecreasing(loop.visited)
           /\ \A i \in 1 .. Len(loop.visited) :
                  loop.visited[i] <= simulation_time
           /\ Len(queue) + Len(loop.visited) = loop.initial
           /\ loop.calls <= loop.initial + 1
           /\ event.result = None =>
                  /\ phase # "error"
                  /\ \A i \in 1 .. Len(queue) : queue[i].end > simulation_time

\* The third call of a loop returns None after the two packets of the queue,
\* both ended, were returned by the first two calls.
C5_Witness ==
    /\ event.op = "deliver"
    /\ event.result = None
    /\ event.loop.calls = 3
    /\ Len(event.loop.visited) = 2
    /\ event.loop.initial = 2

\* C6: a send with an empty message creates no packet and leaves the packet
\* counter, next_transmission_time and the queue of the sender as they were,
\* and no empty message is ever queued, captured or received.
C6_EmptyMessageDiscarded ==
    /\ (event.op = "send" /\ event.message = "") =>
           event.before = << packet_counter[event.node],
                             next_transmission_time[event.node],
                             transmitted_packets[event.node] >>
    /\ \A n \in DOMAIN transmitted_packets :
           /\ \A i \in 1 .. Len(transmitted_packets[n]) :
                  heap[transmitted_packets[n][i].message] # ""
           /\ \A i \in 1 .. Len(captured_packets[n]) :
                  heap[captured_packets[n][i][2]] # ""
    /\ (event.op = "receive" /\ event.result # None) =>
           heap[event.result[1][2]] # ""

\* An empty message is sent by a node that has a packet in its queue.
C6_Witness ==
    /\ event.op = "send"
    /\ event.message = ""
    /\ packet_counter[event.node] = 0
    /\ Len(transmitted_packets[event.node]) = 1

\* C7: every step() runs, in this order and each for all nodes before the
\* next begins, the failures, the movement, the neighborhood, the
\* communication (transmit, then deliver and capture), the application, and
\* last one tick of the clock.
C7_PhaseOrder ==
    /\ IsPrefix(phase_log, ExpectedLog)
    /\ (phase = "move") => moved = {}
    /\ (phase \in {"neighborhood", "transmit", "deliver", "application",
                   "tick"}) => moved = Nodes
    /\ (event.op = "tick" /\ phase # "clock") =>
           /\ phase_log = ExpectedLog
           /\ ticks = simulation_step + 1

\* The second step() has run to its tick.
C7_Witness ==
    /\ event.op = "tick"
    /\ phase_log = ExpectedLog
    /\ simulation_step = 2

\* C8: main is never entered on a failed node, the coordinates of every node,
\* failed or not, are recomputed in every step, and in every step main is
\* entered exactly once on each node that has not failed and on no other.
C8_MainOnlyOnOperativeNodes ==
    /\ (event.op = "main") => ~failure[event.node]
    /\ (phase \in {"move", "neighborhood", "transmit", "deliver",
                   "application", "tick"}) =>
           \A n \in Nodes : main_calls[n] <= (IF failure[n] THEN 0 ELSE 1)
    /\ (phase = "tick") =>
           /\ \A n \in Nodes : main_calls[n] = (IF failure[n] THEN 0 ELSE 1)
           /\ moved = Nodes

\* At the end of the application phase of a step after the one of its crash,
\* a failed node has been moved and not run, and another node has been run.
C8_Witness ==
    /\ phase = "tick"
    /\ \E a \in Nodes :
           /\ failure[a]
           /\ a \in moved
           /\ main_calls[a] = 0
           /\ crashed = << >>
           /\ \E b \in Nodes : ~failure[b] /\ main_calls[b] = 1
    /\ simulation_step = 2

\* C9: in the communication and application phases the neighbor list of no
\* other node contains a failed node, and the list of a failed node is still
\* the nodes in its range that have not failed.
C9_FailedNodesFiltered ==
    (phase \in {"transmit", "deliver", "application", "tick"}) =>
        \A a \in Nodes :
            failure[a] =>
                /\ \A n \in Nodes \ {a} : a \notin neighbors[n]
                /\ neighbors[a] = {m \in in_range[a] : ~failure[m]}

\* A failed node in the range of another node keeps a neighbor in its list.
C9_Witness ==
    /\ phase = "application"
    /\ \E a \in Nodes :
           /\ failure[a]
           /\ neighbors[a] # {}
           /\ \E n \in Nodes \ {a} : a \in in_range[n] /\ a \notin neighbors[n]

\* C10: when packet_loss() always returns True no packet is returned by
\* deliver_packet, no packet is captured and every receive returns None.
C10_AllLostNothingCaptured ==
    loss_always =>
        /\ \A n \in DOMAIN captured_packets : captured_packets[n] = << >>
        /\ (event.op = "deliver") => event.result = None
        /\ (event.op = "receive") => event.result = None

\* With every draw a loss, a packet with a receiver is dropped at delivery.
C10_Witness ==
    /\ loss_always
    /\ event.op = "deliver"
    /\ \E i \in 1 .. Len(event.dropped) : event.dropped[i].neighbors[1] # {}

\* C11: in the Hello World run (two nodes, frequency 4, a maximum
\* transmission time of 0.125, no loss), node 0 sends at step 1 and at no
\* other step, and as long as the two nodes have been neighbors at every
\* step, the first receive() of node 1 at step 2 returns (0, message) and
\* every other receive() of node 1, before or after it, returns None.
C11_HelloWorldReceivedOnce ==
    /\ (event.op = "send") => (event.node = 0 /\ current_time[1] = 1)
    /\ (event.op = "receive" /\ event.node = 1 /\ together) =>
           IF event.step = 2 /\ calls = 1
           THEN /\ event.result = Some(<< 0, DeepCopy(Original(0, 0)) >>)
                /\ heap[event.result[1][2]] = sent_payload[<< 0, 0 >>]
           ELSE event.result = None

\* Node 1 receives None at step 3, after it was handed the message of
\* node 0 at step 2 and the nodes were neighbors at every step.
C11_Witness ==
    /\ application = "HelloWorld"
    /\ event.op = "receive"
    /\ event.node = 1
    /\ event.step = 3
    /\ event.result = None
    /\ together
    /\ packet_counter[0] = 0
    /\ transmitted_packets[0] = << >>

\* C12: the failure flag of a node, once True, is True in every later state:
\* no step of the program resets it.
C12_FailedFlagMonotonic ==
    [][\A n \in Nodes : failure[n] => failure'[n]]_vars

\* The failure phase of a step has marked no node, and a node marked at a
\* step before is still marked.
C12_Witness ==
    /\ event.op = "failure"
    /\ event.failures = {}
    /\ simulation_step = 2
    /\ \E n \in Nodes : failure[n]

\* C13: the failure callback of a node is invoked in the failure phase of
\* the step that marks the node failed, before the movement and the
\* communication of that step and with the clock reading of that step, and
\* it has been invoked once for every failed node and never for another.
C13_FailureCallbackOnce ==
    /\ \A n \in Nodes :
           callbacks["failure"][n] = (IF failure[n] THEN 1 ELSE 0)
    /\ (event.op = "failure") =>
           /\ event.invoked = event.failures
           /\ \A n \in event.invoked : failure[n]
           /\ event.time = << simulation_step, simulation_time >>
           /\ phase_log = << << "failure", -1 >> >>
           /\ moved = {}

\* A node fails at step 1: its callback is invoked with (1, 0.25).
C13_Witness ==
    /\ event.op = "failure"
    /\ event.invoked # {}
    /\ event.time = << 1, SimulationPeriod >>
    /\ \A n \in event.invoked : callbacks["failure"][n] = 1

\* C14: the finalize callbacks are invoked after exactly
\* total_simulation_steps calls of step(), each of which ends with one tick,
\* once for every node, failed or not, and never before the last step.
C14_FinalizeOnceAfterLastStep ==
    /\ (phase = "done") =>
           /\ simulation_step = total_simulation_steps
           /\ ticks = total_simulation_steps + 1
           /\ \A n \in Nodes : callbacks["finalize"][n] = 1
    /\ (phase # "done") => \A n \in Nodes : callbacks["finalize"][n] = 0
    /\ (phase \notin {"construct", "done", "error"}) =>
           simulation_step <= total_simulation_steps

\* The run is finalized with a failed node among its nodes.
C14_Witness ==
    /\ phase = "done"
    /\ event.op = "finalize"
    /\ \E n \in Nodes : failure[n] /\ callbacks["finalize"][n] = 1
    /\ \E n \in Nodes : ~failure[n] /\ callbacks["finalize"][n] = 1

\* C15: when an entry of the environment is missing or None, the
\* construction of the network raises an error, and no channel has been
\* created, no initialize callback invoked and the clock not ticked.
C15_ConstructionFailsFirst ==
    (\E key \in ENVIRONMENT : environment[key] \in {"missing", "None"}) =>
        /\ phase \in {"construct", "error"}
        /\ channel_vars = << << >>, << >>, << >>, << >> >>
        /\ \A n \in Nodes : callbacks["initialize"][n] = 0
        /\ ticks = 0
        /\ simulation_step = -1
        /\ (event.op = "init") =>
               (event.raised = "KeyError" /\ phase = "error")

\* The construction has failed on an environment whose only absent entry is
\* a packet_loss that is None.
C15_Witness ==
    /\ phase = "error"
    /\ event.op = "init"
    /\ event.raised = "KeyError"
    /\ environment["packet_loss"] = "None"
    /\ \A key \in ENVIRONMENT \ {"packet_loss"} : environment[key] = "given"

\* C16: setup(frequency) raises ValueError exactly when frequency <= 0, and
\* after a setup that succeeded the step is -1 and the time -1.0 until the
\* first tick.
C16_SetupRejectsNonPositive ==
    /\ (event.op = "setup") =>
           /\ (event.frequency <= 0) <=> (event.raised = "ValueError")
           /\ (event.raised = "ValueError") <=> (phase = "error")
           /\ (event.raised = "nothing") =>
                  /\ phase = "clock"
                  /\ simulation_frequency = event.frequency
    /\ (phase = "clock" /\ ticks = 0) =>
           /\ simulation_step = -1
           /\ simulation_time = MinusOne

\* setup(0) has raised ValueError.
C16_Witness ==
    /\ event.op = "setup"
    /\ event.frequency = 0
    /\ event.raised = "ValueError"
    /\ phase = "error"

\* C17: when deliver_packet is called in a step, and so before any packet is
\* captured in it, transmit_packets has been called in that step for every
\* node, each time with the neighbor list the neighborhood phase of the step
\* computed for the node.
C17_TransmitBeforeDeliver ==
    /\ (event.op = "deliver") =>
           \A n \in Nodes :
               \E i \in 1 .. Len(phase_log) : phase_log[i] = << "transmit", n >>
    /\ (event.op = "transmit") =>
           /\ in_range = GetNeighbors(coordinates)
           /\ event.neighbors =
                  {m \in in_range[event.node] : ~failure[m]}
           /\ \A i \in 1 .. Len(phase_log) : phase_log[i][1] # "deliver"

\* The first call of deliver_packet of a step, on node 0, returns a packet.
C17_Witness ==
    /\ event.op = "deliver"
    /\ event.node = 0
    /\ event.result # None
    /\ event.loop.calls = 1
    /\ phase_log[Len(phase_log)] = << "transmit", nodes_number - 1 >>

\* The key of sent_payload for a message object.
SentKey(object) == << object[1], object[2] >>

\* C18: the content of the message of every queued packet, of every captured
\* message and of every message receive() returns is the content the
\* application passed to send, whatever the sending application has done
\* since to the object it passed.
C18_PayloadPassedByValue ==
    /\ \A n \in DOMAIN transmitted_packets :
           /\ \A i \in 1 .. Len(transmitted_packets[n]) :
                  LET message == transmitted_packets[n][i].message
                  IN heap[message] = sent_payload[SentKey(message)]
           /\ \A i \in 1 .. Len(captured_packets[n]) :
                  LET message == captured_packets[n][i][2]
                  IN heap[message] = sent_payload[SentKey(message)]
    /\ (event.op = "receive" /\ event.result # None) =>
           LET message == event.result[1][2]
           IN heap[message] = sent_payload[SentKey(message)]

\* receive() returns a message whose sender has changed, after the send,
\* the object it passed.
C18_Witness ==
    /\ event.op = "receive"
    /\ event.result # None
    /\ LET message == event.result[1][2]
       IN /\ heap[Original(message[1], message[2])] = MutatedMessage
          /\ heap[message] # MutatedMessage
          /\ sent_payload[SentKey(message)] = heap[message]

\* C19: the packets a node creates are numbered 0, 1, 2, ... in the order
\* of their creation, so the counter of a node is one less than the packets
\* it has created and the identifiers in a queue are consecutive, and a
\* discarded empty send takes no identifier.
C19_PacketIdentifiers ==
    /\ \A n \in DOMAIN transmitted_packets :
           LET queue == transmitted_packets[n]
           IN /\ packet_counter[n] + 1 =
                     Cardinality({key \in DOMAIN sent_payload : key[1] = n})
              /\ \A i \in 1 .. Len(queue) :
                     queue[i].id \in 0 .. packet_counter[n]
              /\ \A i, j \in 1 .. Len(queue) :
                     queue[j].id = queue[i].id + (j - i)
    /\ Cardinality(DOMAIN sent_payload) = sends
    /\ (event.op = "send") =>
           LET queue == transmitted_packets[event.node]
           IN IF event.message = ""
              THEN packet_counter[event.node] = event.before[1]
              ELSE /\ packet_counter[event.node] = event.before[1] + 1
                   /\ queue[Len(queue)].id = event.before[1] + 1
                   /\ event.previous_end = None => queue[Len(queue)].id = 0

\* The second packet of a node is created, with the identifier 1, at the
\* step after the first one, which has left the queue.
C19_Witness ==
    /\ event.op = "send"
    /\ event.message # ""
    /\ event.before[1] = 0
    /\ packet_counter[event.node] = 1
    /\ simulation_step = 1
    /\ Len(transmitted_packets[event.node]) = 1
    /\ transmitted_packets[event.node][1].id = 1

\* C20: receive() on a node removes and returns the oldest captured message
\* of the node, or returns None and leaves the mailbox empty when there is
\* none; a capture appends to the mailbox, and nothing else changes it.
C20_MailboxIsFifo ==
    [][\A n \in DOMAIN captured_packets :
          LET old == captured_packets[n]
              new == captured_packets'[n]
          IN IF event'.op = "receive" /\ event'.node = n
             THEN IF old = << >>
                  THEN event'.result = None /\ new = << >>
                  ELSE event'.result = Some(old[1]) /\ new = Tail(old)
             ELSE IF /\ event'.op = "deliver"
                     /\ event'.result # None
                     /\ n \in event'.result[1].neighbors[1]
             THEN new = Append(old, << event'.result[1].sender,
                                       event'.result[1].message >>)
             ELSE new = old]_vars

\* receive() returns the older of two captured messages and leaves the
\* newer one.
C20_Witness ==
    /\ event.op = "receive"
    /\ event.result # None
    /\ captured_packets[event.node] # << >>
    /\ event.result[1][2][2] = 0
    /\ captured_packets[event.node][1][2][2] = 1

\* C21: while a packet is delivered, packet_loss() of the sender's channel is
\* called once for every node of the packet's list of that moment and for no
\* other node, and a node leaves the list if and only if its own call
\* returned True: the packets dropped lost every node, and the receivers of
\* the packet returned are the nodes whose call returned False.
C21_OneDrawPerTarget ==
    (event.op = "deliver") =>
        /\ Len(event.draws) = Len(event.dropped)
        /\ \A i \in 1 .. Len(event.dropped) :
              /\ event.dropped[i].sender = event.node
              /\ DOMAIN event.draws[i] = event.dropped[i].neighbors[1]
              /\ \A nb \in DOMAIN event.draws[i] : event.draws[i][nb]
        /\ (event.result # None) =>
              /\ event.result[1].sender = event.node
              /\ DOMAIN event.draw = event.targets
              /\ event.result[1].neighbors[1] =
                     {nb \in event.targets : ~event.draw[nb]}

\* A packet with two targets is delivered to one of them only: the call for
\* the other node returned True.
C21_Witness ==
    /\ event.op = "deliver"
    /\ event.result # None
    /\ Cardinality(event.targets) = 2
    /\ Cardinality(event.result[1].neighbors[1]) = 1
    /\ \E nb \in event.targets : event.draw[nb]

\* C22: the construction of a Channel raises ValueError when time is None,
\* when packet_loss is None, when node_id < 0 and when
\* maximum_transmission_time < 0, and then no channel exists.
C22_ChannelArguments ==
    (event.op = "channel") =>
        LET arguments == channel_arguments[1]
        IN /\ (\/ arguments.time = "None"
               \/ arguments.packet_loss = "None"
               \/ arguments.node_id < 0
               \/ arguments.maximum_transmission_time < 0) =>
                  /\ event.raised = "ValueError"
                  /\ transmitted_packets = << >>
                  /\ captured_packets = << >>
                  /\ packet_counter = << >>
                  /\ next_transmission_time = << >>
           /\ (event.raised = "ValueError") => phase = "error"

\* The construction was refused for a negative maximum transmission time
\* alone.
C22_Witness ==
    /\ event.op = "channel"
    /\ event.raised = "ValueError"
    /\ channel_arguments[1].time = "given"
    /\ channel_arguments[1].packet_loss = "given"
    /\ channel_arguments[1].node_id = 0
    /\ channel_arguments[1].maximum_transmission_time < 0

\* C23: with the Crash model, the number of nodes marked failed never
\* exceeds maximum_crash_number.
C23_FailedAtMostMaximum ==
    Cardinality({n \in Nodes : failure[n]}) <= maximum_crash_number

\* Two nodes are failed under a maximum of two, the crash probability being
\* one: every node's draw was a hit, and the loop stopped at the second.
C23_Witness ==
    /\ maximum_crash_number = 2
    /\ crash_probability = Unit
    /\ Cardinality({n \in Nodes : failure[n]}) = 2

\* C25: with the Crash model, no node is marked failed at a simulation step
\* smaller than transient_steps.
C25_NoFailureInTransientPeriod ==
    (event.op = "failure" /\ event.failures # {}) =>
        simulation_step >= transient_steps

\* A node is marked failed at the very step the transient period of two
\* steps is over.
C25_Witness ==
    /\ event.op = "failure"
    /\ event.failures # {}
    /\ transient_steps = 2
    /\ simulation_step = transient_steps

\* C24: with the Crash model constructed with crash_probability = 0 and/or
\* maximum_crash_number = 0, node_failure returns an empty list at every step
\* and every failure flag stays False.
C24_NoFailureWhenZero ==
    (crash_probability = 0 \/ maximum_crash_number = 0) =>
        /\ \A n \in Nodes : ~failure[n]
        /\ (event.op = "failure") => event.failures = {}

\* C26: in the Gilbert-Elliott model, which starts in state G, with p = 0
\* no loss is possible: every call of packet_loss() returns False.
C26_NoLossWhenPIsZero ==
    (prhk # None /\ prhk[1][1] = 0 /\ event.op = "packet_loss") =>
        ~event.result

\* C27: from the step at which a node is marked failed onward, no packet is
\* captured into its mailbox, whatever packets were in flight towards it
\* when it failed: no receiver of a delivered packet is a failed node.
C27_NoCaptureOnFailedNode ==
    (event.op = "deliver" /\ event.result # None) =>
        \A receiver \in event.result[1].neighbors[1] : ~failure[receiver]

\* C30: the list of a packet is resolved once.  The packet a send appends is
\* resolved, to the sender's neighbor list of that step, exactly when its
\* start <= time + period; an unresolved packet stays unresolved until the
\* first transmit_packets call of its sender at which start <= time + period,
\* which resolves it to the neighbor list of that call; and a resolved list
\* is never resolved again: it only loses nodes.
C30_ResolvedOnce ==
    [][\A n \in DOMAIN transmitted_packets \cap DOMAIN transmitted_packets' :
          \A j \in 1 .. Len(transmitted_packets'[n]) :
             LET q == transmitted_packets'[n][j]
                 old == {i \in 1 .. Len(transmitted_packets[n]) :
                            transmitted_packets[n][i].id = q.id}
                 due == q.start <= simulation_time + SimulationPeriod
             IN IF old = {}
                THEN q.neighbors = IF due THEN Some(neighbors[n]) ELSE None
                ELSE \A i \in old :
                        LET p == transmitted_packets[n][i]
                        IN IF p.neighbors # None
                           THEN /\ q.neighbors # None
                                /\ q.neighbors[1] \subseteq p.neighbors[1]
                           ELSE IF /\ event'.op = "transmit"
                                   /\ event'.node = n
                                   /\ due
                                THEN q.neighbors = Some(event'.neighbors)
                                ELSE q.neighbors = None]_vars

\* A transmit_packets call has resolved a packet whose window has not begun:
\* the packet was unresolved since its send, at an earlier step.
C30_Witness ==
    /\ event.op = "transmit"
    /\ \E i \in 1 .. Len(transmitted_packets[event.node]) :
          LET packet == transmitted_packets[event.node][i]
          IN /\ packet.neighbors # None
             /\ packet.start > simulation_time

\* C28: the application cannot change a packet in flight through the list of
\* neighbors: an in-place change it makes, within main, to the list it was
\* handed leaves the list of every packet in every queue as it was.
C28_NeighborListNotShared ==
    (event.op = "mutate_neighbors") =>
        \A n \in DOMAIN transmitted_packets :
            \A i \in 1 .. Len(transmitted_packets[n]) :
                transmitted_packets[n][i].neighbors =
                    event.before[n][i].neighbors

\* C29: the channel shares no object between receivers: the object of a
\* message in one node's mailbox, or returned to it by receive(), is in no
\* other node's mailbox, and the content of a message in a mailbox is still
\* the content that was sent after another node has changed the object it
\* received.
C29_ReceiversShareNothing ==
    /\ \A n, m \in DOMAIN captured_packets :
           (n # m) =>
               \A i \in 1 .. Len(captured_packets[n]) :
                   \A j \in 1 .. Len(captured_packets[m]) :
                       captured_packets[n][i][2] # captured_packets[m][j][2]
    /\ (event.op = "receive" /\ event.result # None) =>
           \A m \in DOMAIN captured_packets \ {event.node} :
               \A j \in 1 .. Len(captured_packets[m]) :
                   captured_packets[m][j][2] # event.result[1][2]
    /\ (event.op = "mutate_received") =>
           \A m \in DOMAIN captured_packets \ {event.node} :
               \A j \in 1 .. Len(captured_packets[m]) :
                   LET message == captured_packets[m][j][2]
                   IN heap[message] = sent_payload[SentKey(message)]

\* C31: once the list of a packet is resolved it only shrinks: over every
\* call of transmit_packets and deliver_packet the list of a queued packet
\* stays resolved and within the list it was before, the receivers of a
\* returned packet are within the list the packet had in the queue, and a
\* packet whose list is empty is delivered to no node: only the receivers of
\* the returned packet capture anything, and they are not none.
C31_TargetsOnlyShrink ==
    [][\A n \in DOMAIN transmitted_packets \cap DOMAIN transmitted_packets' :
          LET queue == transmitted_packets[n]
          IN /\ \A j \in 1 .. Len(transmitted_packets'[n]) :
                   \A i \in 1 .. Len(queue) :
                       LET q == transmitted_packets'[n][j]
                       IN (queue[i].id = q.id /\ queue[i].neighbors # None) =>
                              /\ q.neighbors # None
                              /\ q.neighbors[1] \subseteq queue[i].neighbors[1]
             /\ (event'.op = "deliver" /\ event'.node = n) =>
                    IF event'.result = None
                    THEN captured_packets' = captured_packets
                    ELSE LET returned == event'.result[1]
                             receivers == returned.neighbors[1]
                         IN /\ receivers # {}
                            /\ \E i \in 1 .. Len(queue) :
                                   /\ queue[i].id = returned.id
                                   /\ queue[i].neighbors # None
                                   /\ receivers \subseteq queue[i].neighbors[1]
                            /\ \A r \in DOMAIN captured_packets :
                                   captured_packets'[r] =
                                       IF r \in receivers
                                       THEN Append(captured_packets[r],
                                                << returned.sender,
                                                   returned.message >>)
                                       ELSE captured_packets[r]]_vars

\* Within its window a packet has a list that is smaller than the list of
\* neighbors transmit_packets was called with: a node that became a neighbor
\* after the resolution was not added.
C31_Witness ==
    /\ event.op = "transmit"
    /\ \E i \in 1 .. Len(transmitted_packets[event.node]) :
          LET packet == transmitted_packets[event.node][i]
          IN /\ InWindow(packet)
             /\ packet.neighbors # None
             /\ packet.neighbors[1] # {}
             /\ packet.neighbors[1] # event.neighbors
             /\ packet.neighbors[1] \subseteq event.neighbors

C33_NeverReturnsEmptyTargets ==
    [][event'.op = "deliver" =>
          LET queue == transmitted_packets[event'.node]
              dropped == event'.dropped
              k == Len(dropped)
          IN /\ k <= Len(queue)
             /\ \A i \in 1 .. k :
                    /\ dropped[i] = queue[i]
                    /\ queue[i].end <= simulation_time
                    /\ queue[i].neighbors # None
                    /\ queue[i].neighbors[1] \subseteq LossesOf(event'.draws[i])
             /\ IF event'.result = None
                THEN /\ transmitted_packets'[event'.node] = DropFront(queue, k)
                     /\ captured_packets' = captured_packets
                     /\ phase' # "error" =>
                            (k = Len(queue) \/ simulation_time < queue[k + 1].end)
                ELSE LET returned == event'.result[1]
                     IN /\ k < Len(queue)
                        /\ returned.id = queue[k + 1].id
                        /\ returned.sender = event'.node
                        /\ returned.message = queue[k + 1].message
                        /\ returned.neighbors # None
                        /\ returned.neighbors[1] # {}
                        /\ returned.neighbors[1] =
                               queue[k + 1].neighbors[1] \ LossesOf(event'.draw)
                        /\ transmitted_packets'[event'.node] =
                               DropFront(queue, k + 1)
                        /\ \A r \in DOMAIN captured_packets :
                               Len(captured_packets'[r]) =
                                   Len(captured_packets[r]) +
                                       (IF r \in returned.neighbors[1]
                                        THEN 1 ELSE 0)]_vars

\* One call has dropped a ready packet that had targets, all of them lost,
\* and returned the packet behind it.
C33_Witness ==
    /\ event.op = "deliver"
    /\ event.result # None
    /\ \E i \in 1 .. Len(event.dropped) :
           event.dropped[i].neighbors[1] # {}

\* C34: during the k-th call of Network.step(), k = 0, 1, ..., the clock
\* reads step k and time k / frequency in every phase, and the reading kept
\* by the network, which the failure and main callbacks are handed, is the
\* clock's own; the clock has ticked once at construction and once in every
\* step completed, so a step in progress has not ticked before the end of
\* its application phase.
C34_ClockReadsStepNumber ==
    /\ (phase \in {"move", "neighborhood", "transmit", "deliver",
                   "application", "tick"}) =>
           LET k == step_begin.calls - 1
           IN /\ k >= 0
              /\ simulation_step = k
              /\ simulation_time * simulation_frequency = k * Resolution
              /\ current_time = << simulation_step, simulation_time >>
              /\ ticks = 1 + k
              /\ (event.op = "failure") => event.time = current_time
    /\ (phase \in {"failure", "done"}) =>
           /\ simulation_step = step_begin.calls
           /\ simulation_time * simulation_frequency =
                  step_begin.calls * Resolution
           /\ current_time = << simulation_step, simulation_time >>
           /\ ticks = 1 + step_begin.calls

\* main runs in the third call of step(), k = 2, with the clock at step 2
\* and time 0.5, after a failure callback was invoked in that step.
C34_Witness ==
    /\ phase = "application"
    /\ in_main
    /\ step_begin.calls = 3
    /\ simulation_step = 2
    /\ simulation_time = 2 * SimulationPeriod
    /\ \E n \in Nodes : callbacks["failure"][n] = 1

\* C35: in the steps of Network.step no unresolved list of targets is used.
\* A queued packet whose transmission has started by the current time has
\* its neighbors resolved, so the assertion of transmit_packets on a packet
\* within its window never fails, and deliver_packet never finds None as
\* the neighbors of a front packet whose transmission has ended.
C35_NoUnresolvedTargetsUsed ==
    /\ phase # "error"
    /\ (event.op = "transmit") => event.raised = "nothing"
    /\ \A n \in DOMAIN transmitted_packets :
           \A i \in 1 .. Len(transmitted_packets[n]) :
               LET packet == transmitted_packets[n][i]
               IN (InWindow(packet) \/ Ready(packet)) => packet.neighbors # None

\* transmit_packets finds within its window, for the first time, a packet
\* that was sent in an earlier step and had to wait for the packet before
\* it: its neighbors are resolved and not empty.
C35_Witness ==
    /\ event.op = "transmit"
    /\ phase # "error"
    /\ \E i \in 1 .. Len(transmitted_packets[event.node]) :
           LET packet == transmitted_packets[event.node][i]
           IN /\ InWindow(packet)
              /\ packet.start > simulation_time - SimulationPeriod
              /\ packet.id <= step_begin.packet_counter[event.node]
              /\ packet.neighbors # None
              /\ packet.neighbors[1] # {}

\* C36: no packet is captured before its transmission window has ended.  A
\* packet that deliver_packet returns, and that is captured, has its
\* window_end at or before the clock time of the step; every message in a
\* mailbox was sent in a step before the current one; and so no receive()
\* of a step returns a message sent during that step.
C36_NoCaptureBeforeWindowEnd ==
    /\ (event.op = "deliver" /\ event.result # None) =>
           /\ event.result[1].end <= simulation_time
           /\ event.result[1].id <= step_begin.packet_counter[event.node]
    /\ \A r \in DOMAIN captured_packets :
           \A i \in 1 .. Len(captured_packets[r]) :
               LET sender == captured_packets[r][i][1]
                   message == captured_packets[r][i][2]
               IN /\ message[1] = sender
                  /\ message[2] <= step_begin.packet_counter[sender]
    /\ (event.op = "receive" /\ event.result # None) =>
           LET sender == event.result[1][1]
               message == event.result[1][2]
           IN /\ event.step = simulation_step
              /\ message[2] <= step_begin.packet_counter[sender]

\* The earliest capture: a packet sent at one step, with a transmission
\* time of one period, is returned and captured at the next step, the time
\* of which is its window_end, while its sender has sent nothing since.
C36_Witness ==
    /\ event.op = "deliver"
    /\ event.result # None
    /\ event.result[1].start = simulation_time - SimulationPeriod
    /\ event.result[1].end = simulation_time
    /\ event.result[1].id = packet_counter[event.node]

\* C37: every packet leaves the queue of its sender, returned or dropped,
\* in the communication phase of the first step whose clock time has
\* reached its window_end.  At the end of every communication phase, and
\* during it for the nodes whose deliveries are over, no queue holds a
\* packet with window_end <= the clock time; hence no packet is ever queued
\* one full period after its window_end.
C37_QueueDrainedEveryStep ==
    \A n \in DOMAIN transmitted_packets :
        \A i \in 1 .. Len(transmitted_packets[n]) :
            LET packet == transmitted_packets[n][i]
            IN /\ (phase \in {"application", "tick"}) =>
                      simulation_time < packet.end
               /\ (phase = "deliver" /\ n < node) =>
                      simulation_time < packet.end
               /\ simulation_time - SimulationPeriod < packet.end

\* The communication phase of a step is over: a packet has been captured,
\* and a packet whose transmission ends later is still queued.
C37_Witness ==
    /\ phase = "application"
    /\ event.op = "deliver"
    /\ \E r \in DOMAIN captured_packets : captured_packets[r] # << >>
    /\ \E n \in DOMAIN transmitted_packets :
           /\ transmitted_packets[n] # << >>
           /\ transmitted_packets[n][1].start < simulation_time

\* C38: messages keep the order of their sending on every link.  In the
\* mailbox of a receiver the messages of one sender are in the order of
\* their packet identifiers, each at most once, and they precede, in that
\* order, every packet the sender still has queued; what receive() returns
\* precedes every message of the same sender left in the mailbox or still
\* queued, so no later receive() returns it again or an older one.
C38_PerLinkFifo ==
    \A r \in DOMAIN captured_packets :
        LET mailbox == captured_packets[r]
        IN /\ \A i, j \in 1 .. Len(mailbox) :
                  (i < j /\ mailbox[i][1] = mailbox[j][1]) =>
                      mailbox[i][2][2] < mailbox[j][2][2]
           /\ \A i \in 1 .. Len(mailbox) :
                  LET sender == mailbox[i][1]
                  IN \A j \in 1 .. Len(transmitted_packets[sender]) :
                         mailbox[i][2][2] < transmitted_packets[sender][j].id
           /\ (event.op = "receive" /\ event.node = r /\ event.result # None) =>
                  LET sender == event.result[1][1]
                      id == event.result[1][2][2]
                  IN /\ \A i \in 1 .. Len(mailbox) :
                            mailbox[i][1] = sender => id < mailbox[i][2][2]
                     /\ \A j \in 1 .. Len(transmitted_packets[sender]) :
                            id < transmitted_packets[sender][j].id

\* A receiver has obtained the first of two messages of one sender and the
\* second is the next in its mailbox.
C38_Witness ==
    /\ event.op = "receive"
    /\ event.result # None
    /\ captured_packets[event.node] # << >>
    /\ captured_packets[event.node][1][1] = event.result[1][1]
    /\ captured_packets[event.node][1][2][2] = event.result[1][2][2] + 1

\* C39: send_message with a non-empty message terminates on every channel
\* whose construction succeeded: whenever the call is in the loop that
\* draws the transmission time, a draw that breaks the loop is possible.
C39_SendMessageTerminates ==
    (phase = "drawing") =>
        \E message_transmission_time \in UniformTransmissionTime :
            Breaks(message_transmission_time)

\* C40: the crash of a sender does not cancel the packets it has queued.
\* The failure phase leaves every queue as it was; transmit_packets still
\* runs on a failed node and replaces the non-empty targets of each packet
\* within its window by their intersection with the node's own neighbor
\* list; and deliver_packet still runs on it, the packet it returns being
\* captured by every target the losses left, the non-failed ones included.
C40_CrashKeepsQueuedPackets ==
    [][/\ (event'.op = "failure") =>
              transmitted_packets' = transmitted_packets
       /\ (event'.op = "transmit" /\ failure[event'.node]) =>
              LET n == event'.node
                  queue == transmitted_packets[n]
              IN /\ event'.raised = "nothing"
                 /\ Len(transmitted_packets'[n]) = Len(queue)
                 /\ \A i \in 1 .. Len(queue) :
                        (/\ InWindow(queue[i])
                         /\ queue[i].neighbors # None
                         /\ queue[i].neighbors[1] # {}) =>
                            transmitted_packets'[n][i].neighbors =
                                Some(queue[i].neighbors[1] \cap neighbors[n])
       /\ (/\ event'.op = "deliver"
           /\ failure[event'.node]
           /\ event'.result # None) =>
              LET n == event'.node
                  sent == transmitted_packets[n][Len(event'.dropped) + 1]
                  receivers == event'.result[1].neighbors[1]
              IN /\ receivers = sent.neighbors[1] \ LossesOf(event'.draw)
                 /\ \A r \in receivers :
                        captured_packets'[r] =
                            Append(captured_packets[r], << n, sent.message >>)
                 /\ transmitted_packets'[n] =
                        DropFront(transmitted_packets[n],
                                  Len(event'.dropped) + 1)]_vars

\* A packet of a failed sender is returned, one of its targets lost, and
\* captured by a node that has not failed.
C40_Witness ==
    /\ event.op = "deliver"
    /\ failure[event.node]
    /\ event.result # None
    /\ \E r \in event.result[1].neighbors[1] : ~failure[r]
    /\ event.result[1].neighbors[1] # event.targets

====
